---- MODULE Spec2Model ----
(***************************************************************************)
(* Test-input generation drivers of fixkit (fixkit.test_generation):       *)
(*   - AvicennaTestGenerator.solve_formula, the solver-guided driver;      *)
(*   - GrammarFuzzerTestGenerator.run, the random-fuzz driver;             *)
(*   - TestGenerator's construction and persistence (_save_inputs, the     *)
(*     JSON and the Files encodings, the loaders), AvicennaTestGenerator's *)
(*     run and load_formula;                                               *)
(*   - the location modifiers of fixkit.localization.modifier.             *)
(* A Python str is a sequence of one-character strings; a derivation tree  *)
(* (what ISLaSolver.solve returns) is the sequence of its terminal leaves, *)
(* each leaf a str.                                                        *)
(***************************************************************************)
EXTENDS Integers, Sequences, FiniteSets, TLC

VARIABLES
    pc,                 \* position of the driver call being modelled
    max_iterations,     \* solve_formula's parameter / the fuzzer's self.max_iterations
    only_unique_inputs, \* solve_formula's parameter
    failure_formula,    \* solve_formula's local `failure_formula`
    passing,            \* solve_formula's local list `passing`
    failing,            \* solve_formula's local list `failing`
    i,                  \* solve_formula's local `i` (accepted candidates)
    isla_restart,       \* solve_formula's local `isla_restart`
    fail_safe,          \* solve_formula's local `fail_safe`
    diagnoses,          \* self.diagnoses
    self_passing,       \* self.passing, the long-lived corpus
    self_failing,       \* self.failing
    save_automatically, \* self.save_automatically
    saving_method,      \* self.saving_method
    disk,               \* the directory self.out / "test_cases"
    saves,              \* calls of self._save_inputs() made by the current driver call
    requested,          \* the current call has asked its source for a candidate
    oracle_called,      \* the current call has called the oracle
    num_failing,        \* the fuzzer's self.num_failing
    num_passing,        \* the fuzzer's self.num_passing
    iteration,          \* GrammarFuzzerTestGenerator.run's local `iteration`
    passing_count,      \* run's local `passing_count`
    failing_count,      \* run's local `failing_count`
    passing_inputs,     \* run's local list `passing_inputs`
    failing_inputs,     \* run's local list `failing_inputs`
    inp,                \* run's local `inp`, the candidate drawn last
    oracle_result,      \* run's local `oracle_result`, the verdict given last
    seen_failing,       \* the oracle has answered FAILING during the current fuzz run
    draws,              \* calls of fuzzer.fuzz() made by the current fuzz run
    loaded_passing,     \* what the loader of passing tests called last returned
    loaded_failing,     \* what the loader of failing tests called last returned
    formulas,           \* the directory self.out / "formulas"
    identifier,         \* self.identifier
    loaded_formula,     \* what load_formula returned last
    modifier,           \* the LocationModifier object: its class and fields
    lists,              \* the list objects of the modifier's caller, by reference
    suggestions,        \* the reference passed to locations()
    located,            \* the reference locations() returned
    chance,             \* what mutation_chance returned for each returned item
    negate_formula,     \* solve_formula's parameter
    optimized_queries,  \* solve_formula's parameter
    solver,             \* solve_formula's local `solver`, the ISLaSolver in use
    step                \* what the last pass of solve_formula's loop met

vars == <<pc, max_iterations, only_unique_inputs, failure_formula, passing, failing, i, isla_restart,
          fail_safe, diagnoses, self_passing, self_failing, save_automatically,
          saving_method, disk, saves, requested, oracle_called, num_failing,
          num_passing, iteration, passing_count, failing_count, passing_inputs,
          failing_inputs, inp, oracle_result, seen_failing, draws,
          loaded_passing, loaded_failing, formulas, identifier, loaded_formula,
          modifier, lists, suggestions, located, chance, negate_formula,
          optimized_queries, solver, step>>

solveVars == <<max_iterations, only_unique_inputs, failure_formula, passing, failing, i, isla_restart,
               fail_safe, requested, oracle_called>>
fuzzVars == <<num_failing, num_passing, iteration, passing_count, failing_count,
              passing_inputs, failing_inputs, inp, oracle_result, seen_failing,
              draws>>
objVars == <<diagnoses, save_automatically, saving_method>>
corpusVars == <<self_passing, self_failing>>
loadVars == <<loaded_passing, loaded_failing>>
runVars == <<formulas, identifier, loaded_formula>>
modVars == <<modifier, lists, suggestions, located, chance>>
passVars == <<negate_formula, optimized_queries, solver, step>>

(***************************************************************************)
(* Bounds of the model and constants of the program.                       *)
(***************************************************************************)
MaxIter == 2            \* largest max_iterations a call of solve_formula is given
MaxDraws == 3           \* largest max_iterations a fuzzer is constructed with
MaxTarget == 2          \* largest num_failing and num_passing
MaxRestarts == 100      \* `isla_restart < 100`
FailSafeThreshold == 50 \* `fail_safe >= 50`

None == "None"
NoInput == <<"None">>               \* `inp` before the first draw
NotLoaded == << <<"not loaded">> >> \* no loader has returned yet
PASSING == "PASSING"
FAILING == "FAILING"
UNDEFINED == "UNDEFINED"
OracleResult == {PASSING, FAILING, UNDEFINED}

(***************************************************************************)
(* Sequences.                                                              *)
(***************************************************************************)
Range(s) == {s[k] : k \in 1..Len(s)}

RECURSIVE Flatten(_)
Flatten(ss) == IF ss = <<>> THEN <<>> ELSE Head(ss) \o Flatten(Tail(ss))

NoDup(s) == \A a, b \in 1..Len(s) : s[a] = s[b] => a = b

\* The orders list(set(xs)) can give: every duplicate-free listing of xs's elements.
ListOfSet(xs) ==
    {s \in [1..Cardinality(Range(xs)) -> Range(xs)] : Range(s) = Range(xs)}

IsPrefix(s, t) == Len(s) <= Len(t) /\ SubSeq(t, 1, Len(s)) = s

Count(x, s) == Cardinality({k \in 1..Len(s) : s[k] = x})

\* s and t hold the same entries, each as often
SameEntries(s, t) == \A x \in Range(s) \cup Range(t) : Count(x, s) = Count(x, t)

Suffix(s, t) == SubSeq(t, Len(s) + 1, Len(t))

(***************************************************************************)
(* Candidates of the solver-guided source: derivation trees.  Two trees    *)
(* with different leaves can have one string form.                         *)
(***************************************************************************)
Trees == { << <<"a">>, <<"b">> >>, << <<"a", "b">> >>, << <<"c">> >> }

\* str(inp): the concatenation of the tree's terminals
Str(tree) == Flatten(tree)

(***************************************************************************)
(* json.dump and json.load on the corpus record {"length", "inputs"}.      *)
(* A file's text is a sequence of characters.                              *)
(***************************************************************************)
Digits == <<"0", "1", "2", "3", "4", "5", "6", "7", "8", "9">>

RECURSIVE IntText(_)
\* the decimal text of a natural number
IntText(n) == IF n < 10 THEN <<Digits[n + 1]>>
              ELSE IntText(n \div 10) \o <<Digits[(n % 10) + 1]>>

\* the escape with the backslash left as it is
EscapeChar_backslashKept(c) ==
    CASE c = "\"" -> <<"\\", "\"">>
      [] c = "\n" -> <<"\\", "n">>
      [] c = "\t" -> <<"\\", "t">>
      [] OTHER    -> <<c>>

\* the encoder's escape of one character of a string
EscapeChar(c) ==
    CASE c = "\"" -> <<"\\", "\"">>
      [] c = "\\" -> <<"\\", "\\">>
      [] c = "\n" -> <<"\\", "n">>
      [] c = "\t" -> <<"\\", "t">>
      [] OTHER    -> <<c>>

RECURSIVE EscapeAll(_)
EscapeAll(s) == IF s = <<>> THEN <<>> ELSE EscapeChar(Head(s)) \o EscapeAll(Tail(s))

\* a str as a JSON string
JsonString(s) == <<"\"">> \o EscapeAll(s) \o <<"\"">>

RECURSIVE JsonItems(_)
\* the items of a list of str, separated by ", "
JsonItems(l) ==
    IF l = <<>> THEN <<>>
    ELSE IF Len(l) = 1 THEN JsonString(l[1])
    ELSE JsonString(Head(l)) \o <<",", " ">> \o JsonItems(Tail(l))

KeyLength == <<"l", "e", "n", "g", "t", "h">>
KeyInputs == <<"i", "n", "p", "u", "t", "s">>

\* json.dump({"length": length, "inputs": inputs}, f)
JsonDump(length, inputs) ==
    <<"{">> \o JsonString(KeyLength) \o <<":", " ">> \o IntText(length) \o <<",", " ">>
        \o JsonString(KeyInputs) \o <<":", " ">> \o <<"[">> \o JsonItems(inputs)
        \o <<"]">> \o <<"}">>

IsDigit(c) == \E d \in 1..10 : Digits[d] = c
DigitValue(c) == (CHOOSE d \in 1..10 : Digits[d] = c) - 1

RECURSIVE SkipSpace(_, _)
SkipSpace(t, p) == IF p <= Len(t) /\ t[p] = " " THEN SkipSpace(t, p + 1) ELSE p

\* the decoder's reading of the character after a backslash
Unescape(c) ==
    CASE c = "n" -> "\n"
      [] c = "t" -> "\t"
      [] OTHER   -> c

RECURSIVE ScanString(_, _, _)
\* the str whose text starts after an opening quote, and the position after it
ScanString(t, p, acc) ==
    IF t[p] = "\"" THEN [val |-> acc, pos |-> p + 1]
    ELSE IF t[p] = "\\" THEN ScanString(t, p + 2, Append(acc, Unescape(t[p + 1])))
    ELSE ScanString(t, p + 1, Append(acc, t[p]))

RECURSIVE ScanInt(_, _, _)
ScanInt(t, p, acc) ==
    IF p <= Len(t) /\ IsDigit(t[p]) THEN ScanInt(t, p + 1, 10 * acc + DigitValue(t[p]))
    ELSE [val |-> acc, pos |-> p]

RECURSIVE ParseValue(_, _)
RECURSIVE ParseArray(_, _, _)
\* the items of an array after its "[" (or after a ","), and the position after "]"
ParseArray(t, p, acc) ==
    LET q == SkipSpace(t, p) IN
    IF t[q] = "]" THEN [val |-> acc, pos |-> q + 1]
    ELSE IF t[q] = "," THEN ParseArray(t, q + 1, acc)
    ELSE LET v == ParseValue(t, q) IN ParseArray(t, v.pos, Append(acc, v.val))

\* a JSON value: a string, an array or a number
ParseValue(t, p) ==
    LET q == SkipSpace(t, p) IN
    IF t[q] = "\"" THEN ScanString(t, q + 1, <<>>)
    ELSE IF t[q] = "[" THEN ParseArray(t, q + 1, <<>>)
    ELSE ScanInt(t, q, 0)

RECURSIVE ParseMembers(_, _, _)
\* the members of an object after its "{", as a set of <<key, value>> pairs
ParseMembers(t, p, acc) ==
    LET q == SkipSpace(t, p) IN
    IF t[q] = "}" THEN acc
    ELSE IF t[q] = "," THEN ParseMembers(t, q + 1, acc)
    ELSE LET k == ScanString(t, q + 1, <<>>)
             c == SkipSpace(t, k.pos)
             v == ParseValue(t, c + 1)
         IN  ParseMembers(t, v.pos, [key \in DOMAIN acc \cup {k.val} |->
                                        IF key = k.val THEN v.val ELSE acc[key]])

\* json.load(f): the dict of an object's text
JsonLoad(t) == ParseMembers(t, SkipSpace(t, 1) + 1, [key \in {} |-> 0])

\* d.get(key, default)
DictGet(d, key, default) == IF key \in DOMAIN d THEN d[key] ELSE default

(***************************************************************************)
(* The directory self.out / "test_cases": whether it exists, and its files *)
(* (name -> text).  A file name is <<stem, index>>.                        *)
(***************************************************************************)
NoFiles == [name \in {} |-> <<>>]
NoDir == [exists |-> FALSE, files |-> NoFiles]

FailingJson == <<"failing_tests.json", 0>>
PassingJson == <<"passing_tests.json", 0>>
PassingTest(idx) == <<"passing_test_", idx>>
FailingTest(idx) == <<"failing_test_", idx>>

\* str(x) of a bucket entry: the entries the modelled drivers store are str already
StrOfEntry(x) == x

Stringified(bucket) == [k \in 1..Len(bucket) |-> StrOfEntry(bucket[k])]

\* shutil.rmtree(dir)
RemoveTree(d) == NoDir

\* dir.mkdir(parents=True, exist_ok=True)
MakeDir(d) == [exists |-> TRUE, files |-> d.files]

\* open(path, "w") and one write: the file is made or replaced
WriteFile(d, name, text) ==
    [exists |-> d.exists,
     files  |-> [n \in DOMAIN d.files \cup {name} |->
                    IF n = name THEN text ELSE d.files[n]]]

\* the clearing without its `shutil.rmtree(dir)`
ClearedDir_notRemoved(d) == MakeDir(d)

\* `if dir.exists(): shutil.rmtree(dir)` and the mkdir after it
ClearedDir(d) == MakeDir(IF d.exists THEN RemoveTree(d) ELSE d)

\* the inputs array of a record file, [] when there is no such file
StoredInputs(d, name) ==
    IF d.exists /\ name \in DOMAIN d.files
    THEN DictGet(JsonLoad(d.files[name]), KeyInputs, <<>>)
    ELSE <<>>

\* the saving that adds the buckets to the records already stored
SaveAsJson_merged(p, f, d) ==
    WriteFile(WriteFile(ClearedDir(d), FailingJson,
                        JsonDump(Len(f), StoredInputs(d, FailingJson) \o Stringified(f))),
              PassingJson,
              JsonDump(Len(p), StoredInputs(d, PassingJson) \o Stringified(p)))

\* TestGenerator._save_as_json: the directory is cleared and both records are
\* written
SaveAsJson(p, f, d) ==
    WriteFile(WriteFile(ClearedDir(d), FailingJson,
                        JsonDump(Len(f), Stringified(f))),
              PassingJson, JsonDump(Len(p), Stringified(p)))

\* the index of the file name off by one (enumerate(..., 1))
IndexOf_fromOne(k) == k

\* `for idx, test in enumerate(...)`: the idx of the k-th entry
IndexOf(k) == k - 1

\* the loop `for idx, test in enumerate(bucket)`, each pass writing str(test) to
\* the file f"{stem}{idx}": the files of the directory after the loop (of two
\* passes that write one file the later one stays)
WriteTests(d, stem, bucket) ==
    LET written == {<<stem, IndexOf(k)>> : k \in 1..Len(bucket)}
        last(name) == CHOOSE k \in 1..Len(bucket) :
                         /\ IndexOf(k) = name[2]
                         /\ \A j \in 1..Len(bucket) : IndexOf(j) = name[2] => j <= k
    IN  [exists |-> d.exists,
         files  |-> [name \in DOMAIN d.files \cup written |->
                        IF name \in written THEN StrOfEntry(bucket[last(name)])
                        ELSE d.files[name]]]

\* TestGenerator._save_as_files: the directory is cleared and one file per entry
\* is written
SaveAsFiles(p, f, d) ==
    WriteTests(WriteTests(ClearedDir(d), "passing_test_", p), "failing_test_", f)

\* the explicit save clearing the directory as _save_as_files does
SaveTestCases_cleared(p, f, d) == SaveAsFiles(p, f, d)

\* TestGenerator.save_test_cases: the directory is made if it is not there and
\* one file per entry is written
SaveTestCases(p, f, d) ==
    WriteTests(WriteTests(MakeDir(d), "passing_test_", p), "failing_test_", f)

\* the saving without its `if not self.save_automatically: return`
SaveInputs_notGated(auto, method, p, f, d) ==
    IF method = "json" THEN SaveAsJson(p, f, d)
    ELSE IF method = "files" THEN SaveAsFiles(p, f, d)
    ELSE d

\* TestGenerator._save_inputs: the directory after the call
SaveInputs(auto, method, p, f, d) ==
    IF ~auto THEN d
    ELSE IF method = "json" THEN SaveAsJson(p, f, d)
    ELSE IF method = "files" THEN SaveAsFiles(p, f, d)
    ELSE d

\* TestGenerator.load_failing_tests(self.out / "test_cases")
LoadFailingTests(d) ==
    IF d.exists /\ FailingJson \in DOMAIN d.files
    THEN DictGet(JsonLoad(d.files[FailingJson]), KeyInputs, <<>>)
    ELSE <<>>

\* TestGenerator.load_passing_tests(self.out / "test_cases")
LoadPassingTests(d) ==
    IF d.exists /\ PassingJson \in DOMAIN d.files
    THEN DictGet(JsonLoad(d.files[PassingJson]), KeyInputs, <<>>)
    ELSE <<>>

\* The characters of a file's name.
PassingTestStem == <<"p", "a", "s", "s", "i", "n", "g", "_", "t", "e", "s", "t", "_">>
FailingTestStem == <<"f", "a", "i", "l", "i", "n", "g", "_", "t", "e", "s", "t", "_">>
JsonSuffix == <<"s", ".", "j", "s", "o", "n">>

NameText(name) ==
    CASE name = PassingJson -> SubSeq(PassingTestStem, 1, 12) \o JsonSuffix
      [] name = FailingJson -> SubSeq(FailingTestStem, 1, 12) \o JsonSuffix
      [] name[1] = "passing_test_" -> PassingTestStem \o IntText(name[2])
      [] name[1] = "failing_test_" -> FailingTestStem \o IntText(name[2])

\* the pattern matched against the wrong stem
Glob_anyTest(d, prefix) ==
    {name \in DOMAIN d.files :
        \/ IsPrefix(PassingTestStem, NameText(name))
        \/ IsPrefix(FailingTestStem, NameText(name))}

\* filepath.glob(prefix + "*"): the files whose name starts with `prefix`
Glob(d, prefix) == {name \in DOMAIN d.files : IsPrefix(prefix, NameText(name))}

\* The lists a glob can give: the matching files' paths (the directory is fixed,
\* so a path is told by its file name) in any order.
Paths(names) ==
    {s \in [1..Cardinality(names) -> {NameText(name) : name \in names}] :
        Range(s) = {NameText(name) : name \in names}}

\* TestGenerator.load_failing_test_paths(self.out / "test_cases"): the lists it
\* can return
LoadFailingTestPaths(d) == IF d.exists THEN Paths(Glob(d, FailingTestStem)) ELSE {<<>>}

\* TestGenerator.load_passing_test_paths(self.out / "test_cases")
LoadPassingTestPaths(d) == IF d.exists THEN Paths(Glob(d, PassingTestStem)) ELSE {<<>>}

(***************************************************************************)
(* The directory self.out / "formulas": a file per identifier, holding the *)
(* unparsed formula of the first diagnosis.                                *)
(***************************************************************************)
NoFormulas == [exists |-> FALSE, files |-> [name \in {} |-> ""]]

\* ISLaUnparser(self.diagnoses[0].formula).unparse()
Unparse(diag) == IF diag = "diagnosis" THEN "forall x: f(x)" ELSE "exists y: g(y)"

\* AvicennaTestGenerator._save_formula: the directory after the call
SaveFormula(store, id, diag) ==
    [exists |-> TRUE,
     files  |-> [name \in DOMAIN store.files \cup {id} |->
                    IF name = id THEN Unparse(diag) ELSE store.files[name]]]

\* the loading that answers a missing file with an empty formula
LoadFormula_emptyString(store, id) ==
    IF ~(store.exists /\ id \in DOMAIN store.files) THEN "" ELSE store.files[id]

\* AvicennaTestGenerator.load_formula: None without a file, else the file's text
LoadFormula(store, id) ==
    IF ~(store.exists /\ id \in DOMAIN store.files) THEN None ELSE store.files[id]

\* The variables of the operations a specification does not run.
RunIdle == loaded_formula = "not loaded"

ModifierIdle ==
    /\ modifier = None /\ lists = <<>> /\ suggestions = 0 /\ located = 0
    /\ chance = <<>>

(***************************************************************************)
(* The generator objects a call of solve_formula starts from: one that an  *)
(* earlier call with a formula left without a diagnosis and with a saved   *)
(* corpus, and one whose run() left a diagnosis and a corpus, and which    *)
(* saves only on request.                                                  *)
(***************************************************************************)
Generators ==
    { [diagnoses |-> None, passing |-> << <<"c">> >>, failing |-> << <<"a", "b">> >>,
       save_automatically |-> TRUE, saving_method |-> "files"],
      [diagnoses |-> "diagnosis", passing |-> << <<"c">> >>, failing |-> <<>>,
       save_automatically |-> FALSE, saving_method |-> "json"] }

\* The variables of the drivers and loaders a specification does not run.
FuzzIdle ==
    /\ num_failing = 0 /\ num_passing = 0 /\ iteration = 0
    /\ passing_count = 0 /\ failing_count = 0
    /\ passing_inputs = <<>> /\ failing_inputs = <<>>
    /\ inp = NoInput /\ oracle_result = None /\ seen_failing = FALSE
    /\ draws = 0

\* no ISLaSolver yet, and no pass of the loop yet
NoSolver == [id |-> 0, formula |-> [of |-> None, negated |-> FALSE],
             optimized |-> FALSE]
NoStep == [asked |-> 0, candidate |-> NoInput, verdict |-> None]

PassIdle ==
    /\ negate_formula = FALSE /\ optimized_queries = FALSE
    /\ solver = NoSolver /\ step = NoStep

SolveIdle ==
    /\ only_unique_inputs = FALSE /\ failure_formula = None
    /\ passing = <<>> /\ failing = <<>>
    /\ i = 0 /\ isla_restart = 0 /\ fail_safe = 0
    /\ requested = FALSE /\ oracle_called = FALSE
    /\ PassIdle

LoadIdle == loaded_passing = NotLoaded /\ loaded_failing = NotLoaded

(***************************************************************************)
(* AvicennaTestGenerator.solve_formula                                     *)
(***************************************************************************)
InitSolve ==
    /\ pc = "idle"
    /\ \E g \in Generators :
          /\ diagnoses = g.diagnoses
          /\ self_passing = g.passing /\ self_failing = g.failing
          /\ save_automatically = g.save_automatically
          /\ saving_method = g.saving_method
    /\ disk = SaveInputs(save_automatically, saving_method, self_passing,
                         self_failing, NoDir)
    /\ saves = 0
    /\ max_iterations = 0
    /\ identifier = "formula"
    /\ formulas = IF diagnoses = None THEN NoFormulas
                  ELSE SaveFormula(NoFormulas, identifier, diagnoses)
    /\ SolveIdle /\ FuzzIdle /\ LoadIdle /\ RunIdle /\ ModifierIdle

\* the test without its `elif self.diagnoses`
HasFormula_ignoresDiagnoses(formula, diag) == formula # None

\* `if formula: ... elif self.diagnoses: ... else: return`
HasFormula(formula, diag) == formula # None \/ diag # None

\* the formula the solver is given: the parsed argument, else the diagnosis's
FailureFormula(formula, diag) == IF formula # None THEN "parsed" ELSE diag

\* the guard with `i <= max_iterations`
LoopGuard_oneMoreIteration(n, restarts, max) == n <= max /\ restarts < MaxRestarts

\* the guard with `isla_restart <= 100`
LoopGuard_oneMoreRestart(n, restarts, max) == n < max /\ restarts <= MaxRestarts

\* `while i < max_iterations and isla_restart < 100`
LoopGuard(n, restarts, max) == n < max /\ restarts < MaxRestarts

\* the test with `fail_safe > 50`
FailSafeReached_above(fs) == fs > FailSafeThreshold

\* `if fail_safe >= 50`
FailSafeReached(fs) == fs >= FailSafeThreshold

\* an acceptance that is not counted
Counted_not(n) == n

\* `i += 1`
Counted(n) == n + 1

\* the test without its `or str(inp) in failing`
AlreadyFound_passingOnly(s, p, f) == s \in Range(p)

\* the test looking into the corpus of the generator as well
AlreadyFound_orInCorpus(s, p, f) ==
    s \in Range(p) \cup Range(f) \cup Range(self_passing) \cup Range(self_failing)

\* `str(inp) in passing or str(inp) in failing`
AlreadyFound(s, p, f) == s \in Range(p) \/ s \in Range(f)

\* the deduplication without its `if only_unique_inputs`
Deduplicated_always(unique, l) == ListOfSet(l)

\* what `passing = list(set(passing))` can leave in `passing` (only when
\* only_unique_inputs is set)
Deduplicated(unique, l) == IF unique THEN ListOfSet(l) ELSE {l}

\* The call, up to the loop: without a formula and without a diagnosis it returns;
\* otherwise the buckets and the counters are set up and the first source is built.
SolveCall ==
    /\ pc = "idle"
    /\ \E formula \in {None, "formula"}, max \in 0..MaxIter, unique \in BOOLEAN :
          IF HasFormula(formula, diagnoses)
          THEN /\ pc' = "loop"
               /\ max_iterations' = max
               /\ only_unique_inputs' = unique
               /\ failure_formula' = FailureFormula(formula, diagnoses)
               /\ passing' = <<>> /\ failing' = <<>>
               /\ i' = 0 /\ isla_restart' = 0 /\ fail_safe' = 0
               /\ requested' = FALSE /\ oracle_called' = FALSE /\ saves' = 0
          ELSE /\ pc' = "returned"
               /\ UNCHANGED <<solveVars, saves>>
    /\ UNCHANGED <<runVars, modVars, objVars, corpusVars, disk, fuzzVars, loadVars>>

\* the handler without its `isla_restart += 1`
Restart_notCounted == isla_restart' = isla_restart

\* `except StopIteration`: one more restart and a fresh solver
Restart ==
    /\ isla_restart' = isla_restart + 1

\* One pass of the loop in which solver.solve() raises StopIteration.
SolverExhausted ==
    /\ pc = "loop"
    /\ LoopGuard(i, isla_restart, max_iterations)
    /\ requested' = TRUE
    /\ Restart
    /\ UNCHANGED <<pc, max_iterations, only_unique_inputs, failure_formula, passing,
                   failing, i, fail_safe, oracle_called, saves>>
    /\ UNCHANGED <<runVars, modVars, objVars, corpusVars, disk, fuzzVars, loadVars>>

\* One pass of the loop in which the solver gives the candidate `tree` and the
\* oracle the verdict `verdict`.
SolverGives(tree, verdict) ==
    /\ pc = "loop"
    /\ LoopGuard(i, isla_restart, max_iterations)
    /\ requested' = TRUE
    /\ oracle_called' = TRUE
    /\    IF FailSafeReached(fail_safe)
          THEN /\ fail_safe' = 0
               /\ Restart
               /\ UNCHANGED <<passing, failing, i>>
          ELSE IF only_unique_inputs /\ AlreadyFound(Str(tree), passing, failing)
          THEN /\ fail_safe' = fail_safe + 1
               /\ UNCHANGED <<passing, failing, i, isla_restart>>
          ELSE IF verdict = PASSING
          THEN /\ passing' = Append(passing, Str(tree))
               /\ i' = Counted(i)
               /\ UNCHANGED <<failing, fail_safe, isla_restart>>
          ELSE IF verdict = FAILING
          THEN /\ failing' = Append(failing, Str(tree))
               /\ i' = Counted(i)
               /\ UNCHANGED <<passing, fail_safe, isla_restart>>
          ELSE /\ fail_safe' = fail_safe + 1
               /\ UNCHANGED <<passing, failing, i, isla_restart>>
    /\ UNCHANGED <<pc, max_iterations, only_unique_inputs, failure_formula, saves>>
    /\ UNCHANGED <<runVars, modVars, objVars, corpusVars, disk, fuzzVars, loadVars>>

SolverCandidate ==
    \E tree \in Trees, verdict \in OracleResult : SolverGives(tree, verdict)

\* One pass of the loop in which the oracle raises StopIteration itself: the
\* `except StopIteration` of the loop catches it.
OracleStopIteration ==
    /\ pc = "loop"
    /\ LoopGuard(i, isla_restart, max_iterations)
    /\ requested' = TRUE
    /\ oracle_called' = TRUE
    /\ Restart
    /\ UNCHANGED <<pc, max_iterations, only_unique_inputs, failure_formula, passing,
                   failing, i, fail_safe, saves>>
    /\ UNCHANGED <<runVars, modVars, objVars, corpusVars, disk, fuzzVars, loadVars>>

\* the call adding what it had accepted to the corpus before it ends
OracleRaises_corpusExtended ==
    /\ pc = "loop"
    /\ LoopGuard(i, isla_restart, max_iterations)
    /\ requested' = TRUE
    /\ oracle_called' = TRUE
    /\ pc' = "raised"
    /\ self_passing' = self_passing \o passing
    /\ self_failing' = self_failing \o failing
    /\ passing' = <<>> /\ failing' = <<>>
    /\ i' = 0 /\ isla_restart' = 0 /\ fail_safe' = 0
    /\ UNCHANGED <<max_iterations, only_unique_inputs, failure_formula, saves>>
    /\ UNCHANGED <<runVars, modVars, objVars, disk, fuzzVars, loadVars>>

\* One pass of the loop in which the oracle raises any other exception: nothing
\* catches it, the call ends there and its locals with it.
OracleRaises ==
    /\ pc = "loop"
    /\ LoopGuard(i, isla_restart, max_iterations)
    /\ requested' = TRUE
    /\ oracle_called' = TRUE
    /\ pc' = "raised"
    /\ passing' = <<>> /\ failing' = <<>>
    /\ i' = 0 /\ isla_restart' = 0 /\ fail_safe' = 0
    /\ UNCHANGED <<max_iterations, only_unique_inputs, failure_formula, saves>>
    /\ UNCHANGED <<runVars, modVars, objVars, corpusVars, disk, fuzzVars, loadVars>>

\* After the loop: the optional deduplication, the extension of the corpus and
\* self._save_inputs().
SolveFinish ==
    /\ pc = "loop"
    /\ ~LoopGuard(i, isla_restart, max_iterations)
    /\ \E p \in Deduplicated(only_unique_inputs, passing),
          f \in Deduplicated(only_unique_inputs, failing) :
          /\ passing' = p
          /\ failing' = f
          /\ self_passing' = self_passing \o p
          /\ self_failing' = self_failing \o f
    /\ saves' = saves + 1
    /\ disk' = SaveInputs(save_automatically, saving_method, self_passing',
                          self_failing', disk)
    /\ pc' = "done"
    /\ UNCHANGED <<max_iterations, only_unique_inputs, failure_formula, i,
                   isla_restart, fail_safe, requested, oracle_called>>
    /\ UNCHANGED <<runVars, modVars, objVars, fuzzVars, loadVars>>

\* The counters and the buckets alone: the solver object and the passes are left
\* out of the state.
NextSolve ==
    \/ SolveCall /\ UNCHANGED passVars
    \/ SolverExhausted /\ UNCHANGED passVars
    \/ SolverCandidate /\ UNCHANGED passVars
    \/ OracleStopIteration /\ UNCHANGED passVars
    \/ OracleRaises /\ UNCHANGED passVars
    \/ SolveFinish /\ UNCHANGED passVars

SpecSolve == InitSolve /\ [][NextSolve]_vars

(***************************************************************************)
(* solve_formula with its solver object and its passes in the state: which  *)
(* ISLaSolver is in use, and what the last pass asked and was answered.     *)
(***************************************************************************)
\* the negate_formula and optimized_queries a call is given: both set, so that
\* a solver built without them differs
Settings == {[negate |-> TRUE, optimized |-> TRUE]}

\* one derivation tree for each string: the loop keeps str(inp) only
DistinctTrees == {CHOOSE t \in Trees : Str(t) = s : s \in {Str(t) : t \in Trees}}

\* `ISLaSolver(grammar = self.grammar, formula = -failure_formula if negate_formula
\* else failure_formula, enable_optimized_z3_queries = optimized_queries)`; the id
\* tells one instance from another
NewSolver(id, formula, negate, optimized) ==
    [id |-> id, formula |-> [of |-> formula, negated |-> negate],
     optimized |-> optimized]

\* the handler building its solver without the negation
FreshSolver_notNegated(old, formula, negate, optimized) ==
    NewSolver(old.id + 1, formula, FALSE, optimized)

\* the handler keeping the solver it has
FreshSolver_kept(old, formula, negate, optimized) == old

\* the ISLaSolver the `except StopIteration` handler builds
FreshSolver(old, formula, negate, optimized) ==
    NewSolver(old.id + 1, formula, negate, optimized)

LoopCall ==
    /\ SolveCall
    /\ IF pc' = "loop"
       THEN \E s \in Settings :
               /\ negate_formula' = s.negate
               /\ optimized_queries' = s.optimized
               /\ solver' = NewSolver(1, failure_formula', s.negate, s.optimized)
               /\ step' = NoStep
       ELSE UNCHANGED passVars

\* solver.solve() raises StopIteration
LoopExhausted ==
    /\ SolverExhausted
    /\ step' = [asked |-> solver.id, candidate |-> NoInput, verdict |-> None]
    /\ solver' = FreshSolver(solver, failure_formula, negate_formula,
                             optimized_queries)
    /\ UNCHANGED <<negate_formula, optimized_queries>>

\* solver.solve() returns `tree` and the oracle `verdict`
LoopCandidate ==
    \E tree \in DistinctTrees, verdict \in OracleResult :
        /\ SolverGives(tree, verdict)
        /\ step' = [asked |-> solver.id, candidate |-> Str(tree),
                    verdict |-> verdict]
        /\ solver' = IF FailSafeReached(fail_safe)
                     THEN FreshSolver(solver, failure_formula, negate_formula,
                                      optimized_queries)
                     ELSE solver
        /\ UNCHANGED <<negate_formula, optimized_queries>>

\* solver.solve() returns `tree` and the oracle raises StopIteration
LoopOracleStop ==
    /\ OracleStopIteration
    /\ \E tree \in DistinctTrees :
          step' = [asked |-> solver.id, candidate |-> Str(tree),
                   verdict |-> "StopIteration"]
    /\ solver' = FreshSolver(solver, failure_formula, negate_formula,
                             optimized_queries)
    /\ UNCHANGED <<negate_formula, optimized_queries>>

\* the oracle raises another exception: the call ends and its locals with it
LoopOracleRaises ==
    /\ OracleRaises
    /\ negate_formula' = FALSE /\ optimized_queries' = FALSE
    /\ solver' = NoSolver /\ step' = NoStep

LoopFinish ==
    /\ SolveFinish
    /\ UNCHANGED passVars

NextLoop ==
    \/ LoopCall
    \/ LoopExhausted
    \/ LoopCandidate
    \/ LoopOracleStop
    \/ LoopOracleRaises
    \/ LoopFinish

\* the calls of a generator constructed without a diagnosis
InitLoop == InitSolve /\ diagnoses = None

SpecLoop == InitLoop /\ [][NextLoop]_vars

\* The source and the oracle answer every request, so a call that can take a step
\* takes one.  The generator's fields play no part in the loop: the calls of the
\* generator as constructed are enough.
InitSolveFair == InitSolve /\ diagnoses = None

SpecSolveFair == InitSolveFair /\ [][NextSolve]_vars /\ WF_vars(NextSolve)

(***************************************************************************)
(* GrammarFuzzerTestGenerator.run, and the loaders called between calls.   *)
(***************************************************************************)
\* What fuzzer.fuzz() can return: strings of the grammar's language, among them
\* the empty string and strings with the characters JSON escapes.
FuzzInputs == { <<>>, <<"a", "\"", ",">>, <<"\\", "n", "]", "\n">> }

\* The corpus an earlier run() of the same fuzzer can have left: one passing
\* entry, accepted at its first draw.
EarlierPassing == << <<"a", "\"", ",">> >>

\* The fuzzer as constructed (empty buckets, no directory, the targets and the cap
\* as given), or as an earlier run() left it.
InitFuzz ==
    /\ pc = "idle"
    /\ diagnoses = None
    /\ \E cfg \in {<<TRUE, "json">>, <<TRUE, "files">>, <<FALSE, "files">>} :
          save_automatically = cfg[1] /\ saving_method = cfg[2]
    /\ max_iterations \in 0..MaxDraws
    /\ num_failing \in 0..MaxTarget
    /\ num_passing \in 0..MaxTarget
    /\ self_failing = <<>>
    /\ \/ self_passing = <<>> /\ disk = NoDir
       \/ /\ max_iterations >= 1 /\ num_passing >= 1
          /\ self_passing = EarlierPassing
          /\ disk = SaveInputs(save_automatically, saving_method, self_passing,
                               self_failing, NoDir)
    /\ saves = 0
    /\ iteration = 0 /\ passing_count = 0 /\ failing_count = 0
    /\ passing_inputs = <<>> /\ failing_inputs = <<>>
    /\ inp = NoInput /\ oracle_result = None /\ seen_failing = FALSE
    /\ draws = 0
    /\ identifier = None /\ formulas = NoFormulas
    /\ SolveIdle /\ LoadIdle /\ RunIdle /\ ModifierIdle

\* the guard with `iteration <= self.max_iterations`
FuzzGuard_oneMore(it, max) == it <= max

\* `while iteration < self.max_iterations`
FuzzGuard(it, max) == it < max

\* the acceptance without its `inp not in ...`
NotIn_ignored(x, l) == TRUE

\* `inp not in failing_inputs`
NotIn(x, l) == x \notin Range(l)

\* `if failing_count >= self.num_failing`
TargetMet(count, target) == count >= target

\* The call, up to the loop.
FuzzStart ==
    /\ pc = "idle"
    /\ pc' = "fuzz"
    /\ passing_count' = 0 /\ failing_count' = 0
    /\ failing_inputs' = <<>> /\ passing_inputs' = <<>>
    /\ iteration' = 0
    /\ draws' = 0 /\ seen_failing' = FALSE /\ saves' = 0
    /\ UNCHANGED <<max_iterations, num_failing, num_passing, inp, oracle_result>>
    /\ UNCHANGED <<only_unique_inputs, failure_formula, passing, failing, i,
                   isla_restart, fail_safe, requested, oracle_called>>
    /\ UNCHANGED <<runVars, modVars, passVars, objVars, corpusVars, disk, loadVars>>

\* One pass of the loop: a draw, the oracle's verdict, and the bookkeeping.  A
\* `continue` goes back to the loop's head, the `break` to the code after it.
FuzzStep ==
    /\ pc = "fuzz"
    /\ FuzzGuard(iteration, max_iterations)
    /\ \E x \in FuzzInputs, verdict \in OracleResult :
          /\ inp' = x
          /\ oracle_result' = verdict
          /\ seen_failing' = (seen_failing \/ verdict = FAILING)
          /\ IF verdict = FAILING /\ NotIn(x, failing_inputs)
             THEN IF TargetMet(failing_count, num_failing)
                  THEN /\ pc' = "fuzz"
                       /\ UNCHANGED <<failing_inputs, failing_count,
                                      passing_inputs, passing_count>>
                  ELSE /\ failing_inputs' = Append(failing_inputs, x)
                       /\ failing_count' = failing_count + 1
                       /\ UNCHANGED <<passing_inputs, passing_count>>
                       /\ pc' = IF TargetMet(failing_count', num_failing)
                                   /\ TargetMet(passing_count', num_passing)
                                THEN "broke" ELSE "fuzz"
             ELSE IF verdict = PASSING /\ NotIn(x, passing_inputs)
             THEN IF TargetMet(passing_count, num_passing)
                  THEN /\ pc' = "fuzz"
                       /\ UNCHANGED <<failing_inputs, failing_count,
                                      passing_inputs, passing_count>>
                  ELSE /\ passing_inputs' = Append(passing_inputs, x)
                       /\ passing_count' = passing_count + 1
                       /\ UNCHANGED <<failing_inputs, failing_count>>
                       /\ pc' = IF TargetMet(failing_count', num_failing)
                                   /\ TargetMet(passing_count', num_passing)
                                THEN "broke" ELSE "fuzz"
             ELSE /\ UNCHANGED <<failing_inputs, failing_count,
                                 passing_inputs, passing_count>>
                  /\ pc' = IF TargetMet(failing_count, num_failing)
                              /\ TargetMet(passing_count, num_passing)
                           THEN "broke" ELSE "fuzz"
    /\ iteration' = iteration + 1
    /\ draws' = draws + 1
    /\ UNCHANGED <<max_iterations, num_failing, num_passing, saves>>
    /\ UNCHANGED <<only_unique_inputs, failure_formula, passing, failing, i,
                   isla_restart, fail_safe, requested, oracle_called>>
    /\ UNCHANGED <<runVars, modVars, passVars, objVars, corpusVars, disk, loadVars>>

\* One pass of the loop in which the oracle raises: nothing catches it.
FuzzOracleRaises ==
    /\ pc = "fuzz"
    /\ FuzzGuard(iteration, max_iterations)
    /\ \E x \in FuzzInputs : inp' = x
    /\ draws' = draws + 1
    /\ pc' = "raised"
    /\ UNCHANGED <<max_iterations, num_failing, num_passing, iteration, passing_count,
                   failing_count, passing_inputs, failing_inputs, oracle_result,
                   seen_failing, saves>>
    /\ UNCHANGED <<only_unique_inputs, failure_formula, passing, failing, i,
                   isla_restart, fail_safe, requested, oracle_called>>
    /\ UNCHANGED <<runVars, modVars, passVars, objVars, corpusVars, disk, loadVars>>

\* After the loop: both lists through a set, the buckets replaced, _save_inputs().
FuzzFinish ==
    /\ \/ pc = "broke"
       \/ pc = "fuzz" /\ ~FuzzGuard(iteration, max_iterations)
    /\ \E p \in ListOfSet(passing_inputs), f \in ListOfSet(failing_inputs) :
          /\ passing_inputs' = p
          /\ failing_inputs' = f
          /\ self_passing' = p
          /\ self_failing' = f
    /\ saves' = saves + 1
    /\ disk' = SaveInputs(save_automatically, saving_method, self_passing',
                          self_failing', disk)
    /\ pc' = "done"
    /\ UNCHANGED <<max_iterations, num_failing, num_passing, iteration, passing_count,
                   failing_count, inp, oracle_result, seen_failing, draws>>
    /\ UNCHANGED <<only_unique_inputs, failure_formula, passing, failing, i,
                   isla_restart, fail_safe, requested, oracle_called>>
    /\ UNCHANGED <<runVars, modVars, passVars, objVars, loadVars>>

\* TestGenerator.load_passing_tests on the directory, between two calls
LoadPassing ==
    /\ pc \in {"idle", "done", "raised"}
    /\ loaded_passing' = LoadPassingTests(disk)
    /\ UNCHANGED <<pc, solveVars, fuzzVars, runVars, modVars, passVars, objVars, corpusVars, disk, saves,
                   loaded_failing>>

\* TestGenerator.load_failing_tests on the directory, between two calls
LoadFailing ==
    /\ pc \in {"idle", "done", "raised"}
    /\ loaded_failing' = LoadFailingTests(disk)
    /\ UNCHANGED <<pc, solveVars, fuzzVars, runVars, modVars, passVars, objVars, corpusVars, disk, saves,
                   loaded_passing>>

NextFuzz ==
    \/ FuzzStart
    \/ FuzzStep
    \/ FuzzOracleRaises
    \/ FuzzFinish
    \/ LoadPassing
    \/ LoadFailing

SpecFuzz == InitFuzz /\ [][NextFuzz]_vars

\* The fuzzer and the oracle answer every request.
SpecFuzzFair == SpecFuzz /\ WF_vars(FuzzStep \/ FuzzOracleRaises \/ FuzzFinish)

(***************************************************************************)
(* An AvicennaTestGenerator from its construction on: __init__, run,       *)
(* load_formula and the loaders, over a directory that earlier generators  *)
(* with the same `out` can have written.                                   *)
(***************************************************************************)
\* What the report of an Avicenna run can hold, by the inputs' string forms.
ReportPassing == { <<>>, << <<"c">> >>, << <<"c">>, <<"a", "\"">> >> }
ReportFailing == { <<>>, << <<"a", "\"">> >>, << <<"a", "\"">>, <<"c">> >> }

\* The test-case directory before the generator is constructed.
EarlierDirs ==
    { NoDir,
      SaveAsFiles(<< <<"c">>, <<"c">> >>, << <<"a">>, <<"b">> >>, NoDir),
      SaveAsJson(<< <<"a">> >>, << <<"b">>, <<"c">> >>, NoDir) }

\* The formulas directory before the generator is constructed.
EarlierFormulas == { NoFormulas, SaveFormula(NoFormulas, "formula", "diagnosis") }

\* the values `saving_method` is given: none, and strings
SavingMethodArgs == {None, "", "json", "files", "JSON", "csv"}

\* the default taken to be the JSON encoding
SavingMethodOf_defaultJson(arg) == IF arg \in {None, ""} THEN "json" ELSE arg

\* `saving_method or "files"`
SavingMethodOf(arg) == IF arg \in {None, ""} THEN "files" ELSE arg

\* the test that lets every string through
ValidSavingMethod_any(method) == TRUE

\* `self.saving_method not in ["json", "files"]`, negated
ValidSavingMethod(method) == method \in {"json", "files"}

\* Before the construction the variables of the fields hold the arguments of the
\* same names that __init__ is called with.
InitRun ==
    /\ pc = "new"
    /\ saving_method \in SavingMethodArgs
    /\ save_automatically \in BOOLEAN
    /\ identifier \in {None, "other"}
    /\ diagnoses = None
    /\ self_passing = <<>> /\ self_failing = <<>>
    /\ disk \in EarlierDirs
    /\ formulas \in EarlierFormulas
    /\ saves = 0 /\ max_iterations = 0
    /\ SolveIdle /\ FuzzIdle /\ LoadIdle /\ RunIdle /\ ModifierIdle

\* AvicennaTestGenerator.__init__: TestGenerator.__init__ first, which sets
\* self.saving_method and raises ValueError if it is not one it knows, then the
\* other fields of the object.
Construct ==
    /\ pc = "new"
    /\ saving_method' = SavingMethodOf(saving_method)
    /\ IF ValidSavingMethod(saving_method')
       THEN /\ pc' = "idle"
            /\ identifier' = IF identifier = None THEN "formula" ELSE identifier
            /\ self_failing' = <<>> /\ self_passing' = <<>>
            /\ diagnoses' = None
       ELSE /\ pc' = "ValueError"
            /\ UNCHANGED <<identifier, self_failing, self_passing, diagnoses>>
    /\ UNCHANGED <<save_automatically, disk, formulas, saves, loaded_formula>>
    /\ UNCHANGED <<solveVars, fuzzVars, modVars, passVars, loadVars>>

\* AvicennaTestGenerator.run: the diagnoses of avicenna.explain(), the formula
\* saved, and with save_inputs the buckets replaced by the report's inputs and
\* _save_inputs().
AvicennaRun ==
    /\ pc \in {"idle", "done", "saved"}
    /\ \E diag \in {"diagnosis", "other diagnosis"}, save_inputs \in BOOLEAN,
          rp \in ReportPassing, rf \in ReportFailing :
          /\ diagnoses' = diag
          /\ formulas' = SaveFormula(formulas, identifier, diag)
          /\ IF save_inputs
             THEN /\ self_failing' = rf
                  /\ self_passing' = rp
                  /\ saves' = 1
                  /\ disk' = SaveInputs(save_automatically, saving_method,
                                        self_passing', self_failing', disk)
             ELSE /\ saves' = 0
                  /\ UNCHANGED <<self_failing, self_passing, disk>>
    /\ pc' = "done"
    /\ UNCHANGED <<saving_method, save_automatically, identifier, loaded_formula>>
    /\ UNCHANGED <<solveVars, fuzzVars, modVars, passVars, loadVars>>

\* A call of load_formula, between two calls of run.
LoadFormulaCall ==
    /\ pc \in {"idle", "done"}
    /\ \E id \in {"formula", "other"} : loaded_formula' = LoadFormula(formulas, id)
    /\ UNCHANGED <<pc, formulas, identifier, disk, saves>>
    /\ UNCHANGED <<solveVars, fuzzVars, modVars, passVars, objVars, corpusVars, loadVars>>

\* TestGenerator.load_passing_test_paths on the directory, between two calls
LoadPassingPaths ==
    /\ pc \in {"idle", "done", "raised", "saved"}
    /\ loaded_passing' \in LoadPassingTestPaths(disk)
    /\ UNCHANGED <<pc, solveVars, fuzzVars, runVars, modVars, passVars, objVars, corpusVars,
                   disk, saves, loaded_failing>>

\* TestGenerator.load_failing_test_paths on the directory, between two calls
LoadFailingPaths ==
    /\ pc \in {"idle", "done", "raised", "saved"}
    /\ loaded_failing' \in LoadFailingTestPaths(disk)
    /\ UNCHANGED <<pc, solveVars, fuzzVars, runVars, modVars, passVars, objVars, corpusVars,
                   disk, saves, loaded_passing>>

NextRun ==
    \/ Construct
    \/ AvicennaRun
    \/ LoadFormulaCall
    \/ LoadPassing
    \/ LoadFailing
    \/ LoadPassingPaths
    \/ LoadFailingPaths

SpecRun == InitRun /\ [][NextRun]_vars

\* A call of save_test_cases on the directory of the test cases, between two
\* calls of run.
SaveTestCasesCall ==
    /\ pc \in {"idle", "done", "saved"}
    /\ disk' = SaveTestCases(self_passing, self_failing, disk)
    /\ pc' = "saved"
    /\ UNCHANGED <<saves, runVars>>
    /\ UNCHANGED <<solveVars, fuzzVars, modVars, passVars, objVars, corpusVars, loadVars>>

\* the generator with its explicit save
NextSaveCases ==
    \/ Construct
    \/ AvicennaRun
    \/ SaveTestCasesCall
    \/ LoadPassingPaths
    \/ LoadFailingPaths

SpecSaveCases == InitRun /\ [][NextSaveCases]_vars

(***************************************************************************)
(* The location modifiers (fixkit.localization.modifier).  A               *)
(* WeightedIdentifier is a record of its identifier and its weight; weights *)
(* and thresholds are counted in tenths, so 1.0 is 10.  A Python list is an *)
(* object: `lists` holds the contents of each list by its reference.       *)
(***************************************************************************)
MaxLen == 4     \* longest list of suggestions
MaxK == 3       \* largest top_k
One == 10       \* 1.0

Weights == {0, 1, 5, 9}
Thresholds == {-1, 0, 2}

\* the weights given to the SigmoidModifier: every tenth from 0.0 to 1.0
SigmoidWeights == 0..One
Steepness == 10     \* the default steepness
Midpoint == 8       \* the default midpoint 0.8

\* the lists of suggestions of n items: the identifiers are the positions the
\* localization gave, the weights are any
SuggestionsOf(n) ==
    {[k \in 1..n |-> [identifier |-> k, weight |-> w[k]]] : w \in [1..n -> Weights]}

\* the lists given to the SigmoidModifier.  The modifier maps each item by
\* itself, so the lists have at most two items: every pair of weights is met.
SigmoidSuggestionsOf(n) ==
    {[k \in 1..n |-> [identifier |-> k, weight |-> w[k]]] :
        w \in [1..n -> SigmoidWeights]}

Modifiers ==
    {[class |-> "DefaultModifier", top_k |-> 0, threshold |-> 0]}
        \cup {[class |-> "TopRankModifier", top_k |-> k, threshold |-> 0] :
                 k \in -1..MaxK}
        \cup {[class |-> "TopEqualRankModifier", top_k |-> k, threshold |-> t] :
                 k \in -1..MaxK, t \in Thresholds}
        \cup {[class |-> "SigmoidModifier", steepness |-> Steepness,
                midpoint |-> Midpoint]}

Min(a, b) == IF a <= b THEN a ELSE b
Max(a, b) == IF a >= b THEN a ELSE b

\* the slice l[:k] of a list
SliceTo(l, k) ==
    IF k >= 0 THEN SubSeq(l, 1, Min(k, Len(l)))
    ELSE SubSeq(l, 1, Max(Len(l) + k, 0))

\* `location.weight > 0`
Positive(location) == location.weight > 0

\* the function returning its argument
CopyOf_sameObject(heap, ref) == [lists |-> heap, ref |-> ref]

\* `suggestions[:]`: a new list with the items of the old one
CopyOf(heap, ref) == [lists |-> Append(heap, heap[ref]), ref |-> Len(heap) + 1]

\* a list comprehension: a new list with the items given
NewList(heap, items) == [lists |-> Append(heap, items), ref |-> Len(heap) + 1]

\* the filter applied before the slice
TopRankItems_filterFirst(l, k) == SliceTo(SelectSeq(l, Positive), k)

\* `[location for location in suggestions[:self.top_k] if location.weight > 0]`
TopRankItems(l, k) == SelectSeq(SliceTo(l, k), Positive)

RECURSIVE TopWeights(_, _, _, _)
\* the loop over the suggestions from the j-th on: a weight not yet in top_weights
\* is appended, and the loop is left when top_weights has top_k entries or more
TopWeights(l, j, top_weights, k) ==
    IF j > Len(l) THEN top_weights
    ELSE LET appended == IF l[j].weight \notin Range(top_weights)
                         THEN Append(top_weights, l[j].weight)
                         ELSE top_weights
         IN  IF Len(appended) >= k THEN appended
             ELSE TopWeights(l, j + 1, appended, k)

\* TopEqualRankModifier.locations: the items returned
TopEqualRankItems(l, k, threshold) ==
    LET top_weights == TopWeights(l, 1, <<>>, k)
        Kept(location) == /\ location.weight \in Range(top_weights)
                          /\ location.weight > threshold
    IN  SelectSeq(l, Kept)

(***************************************************************************)
(* The arithmetic of SigmoidModifier._sigmoid_function.  The numbers of the *)
(* source are modelled as exact fractions of naturals, so that dividing and *)
(* raising to a power are computed and not assumed; the rounding of binary  *)
(* floating point is left out.  (x / m) ** 10 does not fit a machine        *)
(* integer, so a natural is a sequence of limbs, the least significant      *)
(* first.                                                                  *)
(***************************************************************************)
Base == 1000

Limb(a, k) == IF k <= Len(a) THEN a[k] ELSE 0

\* a natural without its leading zero limbs
Trim(a) ==
    LET used == {k \in 1..Len(a) : a[k] # 0} \cup {1}
    IN  SubSeq(a, 1, CHOOSE k \in used : \A j \in used : j <= k)

\* the natural n < Base
BigOf(n) == <<n>>

\* the limbs of the number whose k-th limb, before the carries, is column[k]
Carried(column) ==
    LET carry[k \in 0..Len(column)] ==
            IF k = 0 THEN 0 ELSE (column[k] + carry[k - 1]) \div Base
    IN  Trim([k \in 1..(Len(column) + 1) |->
                 IF k <= Len(column) THEN (column[k] + carry[k - 1]) % Base
                 ELSE carry[Len(column)]])

BigAdd(a, b) ==
    Carried([k \in 1..Max(Len(a), Len(b)) |-> Limb(a, k) + Limb(b, k)])

\* a - b of naturals a >= b
BigSub(a, b) ==
    LET borrow[k \in 0..Len(a)] ==
            IF k = 0 THEN 0
            ELSE IF a[k] - Limb(b, k) - borrow[k - 1] < 0 THEN 1 ELSE 0
    IN  Trim([k \in 1..Len(a) |->
                 (a[k] - Limb(b, k) - borrow[k - 1] + Base) % Base])

BigMul(a, b) ==
    LET column(k) ==
            LET sum[n \in 0..Len(a)] ==
                    IF n = 0 THEN 0
                    ELSE sum[n - 1] + a[n] * Limb(b, k + 1 - n)
            IN  sum[Min(k, Len(a))]
    IN  Carried([k \in 1..(Len(a) + Len(b)) |-> column(k)])

\* a < b of naturals
BigLess(a, b) ==
    \E k \in 1..Max(Len(a), Len(b)) :
        /\ Limb(a, k) < Limb(b, k)
        /\ \A j \in (k + 1)..Max(Len(a), Len(b)) : Limb(a, j) = Limb(b, j)

\* the fraction num / den
Frac(num, den) == [num |-> num, den |-> den]

\* a weight counted in tenths, as a fraction
FracOfTenths(w) == Frac(BigOf(w), BigOf(One))

FracDiv(p, q) == Frac(BigMul(p.num, q.den), BigMul(p.den, q.num))
FracAdd(p, q) ==
    Frac(BigAdd(BigMul(p.num, q.den), BigMul(q.num, p.den)), BigMul(p.den, q.den))
FracSub(p, q) ==
    Frac(BigSub(BigMul(p.num, q.den), BigMul(q.num, p.den)), BigMul(p.den, q.den))

RECURSIVE FracPow(_, _)
\* p ** e of a natural e, by e multiplications (r is bound to the value of the
\* power below, so that it is computed once)
FracPow(p, e) ==
    IF e = 0 THEN Frac(BigOf(1), BigOf(1))
    ELSE CHOOSE v \in {Frac(BigMul(r.num, p.num), BigMul(r.den, p.den)) :
                           r \in {FracPow(p, e - 1)}} : TRUE

FracLess(p, q) == BigLess(BigMul(p.num, q.den), BigMul(q.num, p.den))
FracEq(p, q) == Trim(BigMul(p.num, q.den)) = Trim(BigMul(q.num, p.den))
FracLeq(p, q) == ~FracLess(q, p)

\* the complement taken of the midpoint itself and not of 1 - midpoint
SigmoidFunction_midpointComplement(weight, steepness, midpoint) ==
    LET x == FracOfTenths(weight)
        a == steepness
        m == FracOfTenths(midpoint)
        one == Frac(BigOf(1), BigOf(1))
    IN  FracDiv(FracPow(FracDiv(x, m), a),
                FracAdd(FracPow(FracDiv(x, m), a),
                        FracPow(FracDiv(FracSub(one, x), m), a)))

\* ((x / m) ** a) / ((x / m) ** a + ((1 - x) / (1 - m)) ** a)
SigmoidFunction(weight, steepness, midpoint) ==
    LET x == FracOfTenths(weight)
        a == steepness
        m == FracOfTenths(midpoint)
        one == Frac(BigOf(1), BigOf(1))
    IN  FracDiv(FracPow(FracDiv(x, m), a),
                FracAdd(FracPow(FracDiv(x, m), a),
                        FracPow(FracDiv(FracSub(one, x), FracSub(one, m)), a)))

\* SigmoidModifier.locations: the items returned
SigmoidItems(l, steepness, midpoint) ==
    [k \in 1..Len(l) |->
        [identifier |-> l[k].identifier,
         weight |-> SigmoidFunction(l[k].weight, steepness, midpoint)]]

\* the chance of the TopRankModifier given to every class
MutationChance_alwaysOne(m, location) == One

\* mutation_chance of the four classes
MutationChance(m, location) ==
    IF m.class \in {"DefaultModifier", "SigmoidModifier"}
    THEN location.weight ELSE One

InitModifier ==
    /\ pc = "call"
    /\ modifier \in Modifiers
    /\ \E n \in 0..MaxLen :
          /\ modifier.class = "SigmoidModifier" => n <= 2
          /\ \E l \in IF modifier.class = "SigmoidModifier"
                      THEN SigmoidSuggestionsOf(n) ELSE SuggestionsOf(n) :
                 lists = <<l>>
    /\ suggestions = 1
    /\ located = 0
    /\ chance = <<>>
    /\ diagnoses = None /\ identifier = None /\ formulas = NoFormulas
    /\ saving_method = None /\ save_automatically = FALSE
    /\ self_passing = <<>> /\ self_failing = <<>>
    /\ disk = NoDir /\ saves = 0 /\ max_iterations = 0
    /\ SolveIdle /\ FuzzIdle /\ LoadIdle /\ RunIdle

\* modifier.locations(suggestions)
Locations ==
    /\ pc = "call"
    /\ LET l == lists[suggestions]
           returned ==
               CASE modifier.class = "DefaultModifier" -> CopyOf(lists, suggestions)
                 [] modifier.class = "TopRankModifier" ->
                       NewList(lists, TopRankItems(l, modifier.top_k))
                 [] modifier.class = "TopEqualRankModifier" ->
                       NewList(lists, TopEqualRankItems(l, modifier.top_k,
                                                        modifier.threshold))
                 [] modifier.class = "SigmoidModifier" ->
                       NewList(lists, SigmoidItems(l, modifier.steepness,
                                                   modifier.midpoint))
       IN  /\ lists' = returned.lists
           /\ located' = returned.ref
    /\ pc' = "located"
    /\ UNCHANGED <<modifier, suggestions, chance>>
    /\ UNCHANGED <<solveVars, fuzzVars, runVars, objVars, passVars, corpusVars, loadVars,
                   disk, saves>>

\* modifier.mutation_chance(location) for every location returned
MutationChances ==
    /\ pc = "located"
    /\ chance' = [k \in 1..Len(lists[located]) |->
                     MutationChance(modifier, lists[located][k])]
    /\ pc' = "weighed"
    /\ UNCHANGED <<modifier, lists, suggestions, located>>
    /\ UNCHANGED <<solveVars, fuzzVars, runVars, objVars, passVars, corpusVars, loadVars,
                   disk, saves>>

\* The caller changes the list it was returned: it removes the first item.
CallerPops ==
    /\ pc = "weighed"
    /\ lists[located] # <<>>
    /\ lists' = [lists EXCEPT ![located] = Tail(@)]
    /\ pc' = "popped"
    /\ UNCHANGED <<modifier, suggestions, located, chance>>
    /\ UNCHANGED <<solveVars, fuzzVars, runVars, objVars, passVars, corpusVars, loadVars,
                   disk, saves>>

NextModifier ==
    \/ Locations
    \/ MutationChances
    \/ CallerPops

SpecModifier == InitModifier /\ [][NextModifier]_vars

(***************************************************************************)
(* Either driver, called on its generator: an AvicennaTestGenerator has an  *)
(* identifier, a GrammarFuzzerTestGenerator has none.                       *)
(***************************************************************************)
InitDrivers == InitSolve \/ InitFuzz

NextDrivers ==
    \/ identifier # None /\ NextSolve
    \/ identifier = None /\ NextFuzz

SpecDrivers == InitDrivers /\ [][NextDrivers]_vars

(***************************************************************************)
(* Properties of the solver-guided driver.                                 *)
(***************************************************************************)
Ended == pc \in {"done", "returned", "raised"}

\* C1: every call of solve_formula ends, whatever the source and the oracle
\* answer (candidates, exhaustion, any verdict, an exception) and whether or not
\* only_unique_inputs is set.
C1_Terminates == <>Ended

\* a call that ended after restarts, rejections and acceptances, with
\* only_unique_inputs set
C1_Witness ==
    /\ pc = "done" /\ only_unique_inputs
    /\ i = 2 /\ isla_restart > 1 /\ fail_safe > 0

\* C2: the counters stay within their budgets, a pass of the loop is made only
\* while both budgets are open, and the loop is left only with one of them used up.
C2_Budgets ==
    /\ [](i <= max_iterations /\ isla_restart <= MaxRestarts)
    /\ [](pc = "done" => (i = max_iterations \/ isla_restart = MaxRestarts))
    /\ [][(pc = "loop" /\ pc' # "done")
             => (i < max_iterations /\ isla_restart < MaxRestarts)]_vars

\* the loop was left by the restart budget, short of the requested inputs
C2_Witness ==
    pc = "done" /\ isla_restart = MaxRestarts /\ i = 1 /\ max_iterations = 2

\* C3 as stated: for every max_iterations, a call whose source only ever signalled
\* exhaustion ends with exactly 100 restarts and nothing accepted.
C3_Original ==
    (pc = "done" /\ ~oracle_called)
        => /\ isla_restart = MaxRestarts
           /\ i = 0 /\ passing = <<>> /\ failing = <<>>

\* C3, amended: for max_iterations >= 1, a call whose source only ever signalled
\* exhaustion does not raise, accepts nothing, and ends with exactly 100 restarts;
\* for max_iterations = 0 it ends without a request.
C3_AlwaysExhausted ==
    (pc \in {"loop", "done", "raised"} /\ ~oracle_called)
        => /\ pc # "raised"
           /\ i = 0 /\ passing = <<>> /\ failing = <<>>
           /\ pc = "done" /\ max_iterations >= 1 => isla_restart = MaxRestarts
           /\ pc = "done" /\ max_iterations = 0 => isla_restart = 0 /\ ~requested

C3_Witness ==
    /\ pc = "done" /\ requested /\ ~oracle_called
    /\ max_iterations = 2 /\ isla_restart = MaxRestarts

\* C4: with only_unique_inputs no string is twice in the run's buckets taken
\* together, during the loop and at the end, whatever verdicts the oracle gives.
C4_Unique ==
    (pc \in {"loop", "done"} /\ only_unique_inputs) => NoDup(passing \o failing)

\* a unique run that accepted two strings after rejecting some candidate
C4_Witness ==
    /\ pc = "done" /\ only_unique_inputs /\ fail_safe > 0
    /\ Len(passing) = 1 /\ Len(failing) = 1

\* the directory holds the corpus (p, f) as _save_inputs writes it
Persisted(d, p, f) ==
    IF saving_method = "json"
    THEN LoadPassingTests(d) = p /\ LoadFailingTests(d) = f
    ELSE /\ DOMAIN d.files = {PassingTest(k - 1) : k \in 1..Len(p)}
                                \cup {FailingTest(k - 1) : k \in 1..Len(f)}
         /\ \A k \in 1..Len(p) : d.files[PassingTest(k - 1)] = p[k]
         /\ \A k \in 1..Len(f) : d.files[FailingTest(k - 1)] = f[k]

\* C5: the corpus and the directory change in one step only, the end of the call:
\* there the corpus is extended by the run's accepted candidates, the old entries
\* staying in front in their order, and _save_inputs is called once, with the
\* extended corpus (it writes nothing when save_automatically is off).
C5_AppendOnly ==
    /\ [][(<<self_passing, self_failing, disk, saves>>'
               # <<self_passing, self_failing, disk, saves>>)
             => /\ pc = "loop" /\ pc' = "done"
                /\ IsPrefix(self_passing, self_passing')
                /\ IsPrefix(self_failing, self_failing')
                /\ SameEntries(Suffix(self_passing, self_passing'), passing)
                /\ SameEntries(Suffix(self_failing, self_failing'), failing)
                /\ saves' = saves + 1
                /\ IF save_automatically
                   THEN Persisted(disk', self_passing', self_failing')
                   ELSE disk' = disk]_vars
    /\ [](pc = "loop" => saves = 0)
    /\ [](pc = "done" => saves = 1)

\* a call on a generator with a corpus that appended to both buckets and saved
C5_Witness ==
    /\ pc = "done" /\ save_automatically /\ ~only_unique_inputs
    /\ Len(self_passing) = 2 /\ Len(self_failing) = 2
    /\ disk.files[FailingTest(1)] = failing[1]

\* C6: a call without a formula on a generator without a diagnosis returns at
\* once: no candidate requested, no oracle call, corpus and directory untouched,
\* nothing saved.  Every other call has a formula to solve.
C6_NoFormulaNoOp ==
    /\ [][(pc' = "returned" /\ pc # "returned")
             => /\ pc = "idle" /\ diagnoses = None
                /\ UNCHANGED <<self_passing, self_failing, disk, saves, requested,
                               oracle_called, passing, failing, objVars>>]_vars
    /\ [](pc = "returned"
             => /\ failure_formula = None /\ diagnoses = None
                /\ ~requested /\ ~oracle_called /\ saves = 0)
    /\ [](pc \in {"loop", "done", "raised"} => failure_formula # None)

\* the call returned on a generator that holds a saved corpus
C6_Witness == pc = "returned" /\ self_failing # <<>> /\ disk.exists

\* C17 as stated, for the pass in which the oracle is called for the first time
\* (the source has given a candidate there, so it has not signalled exhaustion):
\* restart_count increases in that pass only if the fail-safe threshold was
\* reached; a failure of the oracle is never counted as a restart.
C17_OracleFailurePropagates ==
    [][(pc = "loop" /\ ~oracle_called /\ oracle_called')
          => (isla_restart' # isla_restart => FailSafeReached(fail_safe))]_vars

(***************************************************************************)
(* Properties of the random-fuzz driver and of the JSON encoding.          *)
(***************************************************************************)
InFuzzRun == pc \in {"fuzz", "broke", "done", "raised"}

\* C7: a run makes at most max_iterations draws, each pass of the loop is one draw,
\* one oracle call and one iteration, and the run ends; a run with num_failing > 0
\* whose oracle never said FAILING ends after exactly max_iterations draws, with an
\* empty failing bucket and at most num_passing passing entries, all different.
C7_FuzzTerminates ==
    /\ [](InFuzzRun => draws <= max_iterations /\ iteration <= max_iterations)
    /\ [](pc \in {"fuzz", "broke", "done"} => draws = iteration)
    /\ [][(pc = "fuzz" /\ pc' \in {"fuzz", "broke"})
             => iteration' = iteration + 1 /\ draws' = draws + 1]_vars
    /\ [](pc = "done" /\ ~seen_failing /\ num_failing > 0
             => /\ draws = max_iterations
                /\ self_failing = <<>>
                /\ Len(self_passing) <= num_passing
                /\ NoDup(self_passing))
    /\ (pc = "fuzz" ~> pc \in {"done", "raised"})

\* a run that met its passing target early, never saw FAILING, and drew to the cap
C7_Witness ==
    /\ pc = "done" /\ ~seen_failing /\ num_failing = 1 /\ num_passing = 1
    /\ max_iterations = 3 /\ draws = 3
    /\ self_passing # <<>> /\ oracle_result = PASSING

\* C8 as stated: no pass of the loop (a draw and an oracle call) starts in a state
\* in which both targets are met.
C8_StopsWhenTargetsMet ==
    [][(pc = "fuzz" /\ draws' = draws + 1)
          => ~(failing_count >= num_failing /\ passing_count >= num_passing)]_vars

\* C9: a pass of the loop changes the failing list only by appending the candidate
\* just drawn, and only if the verdict is FAILING, the candidate is not in the list
\* and the failing target is not met (likewise for passing); a verdict UNDEFINED
\* changes neither list; so each list is duplicate-free and no longer than its
\* target.  The end of the run replaces the buckets by the lists' elements, each
\* once.
C9_FuzzAcceptance ==
    /\ [][(pc = "fuzz" /\ pc' \in {"fuzz", "broke"})
             => /\ failing_inputs' # failing_inputs
                      => /\ oracle_result' = FAILING
                         /\ inp' \notin Range(failing_inputs)
                         /\ Len(failing_inputs) < num_failing
                         /\ failing_inputs' = Append(failing_inputs, inp')
                /\ passing_inputs' # passing_inputs
                      => /\ oracle_result' = PASSING
                         /\ inp' \notin Range(passing_inputs)
                         /\ Len(passing_inputs) < num_passing
                         /\ passing_inputs' = Append(passing_inputs, inp')
                /\ oracle_result' = UNDEFINED
                      => UNCHANGED <<failing_inputs, passing_inputs>>]_vars
    /\ [](InFuzzRun => /\ NoDup(failing_inputs) /\ Len(failing_inputs) <= num_failing
                       /\ NoDup(passing_inputs) /\ Len(passing_inputs) <= num_passing)
    /\ [][(pc' = "done" /\ pc # "done")
             => /\ Range(self_passing') = Range(passing_inputs)
                /\ Range(self_failing') = Range(failing_inputs)
                /\ Len(self_passing') = Len(passing_inputs)
                /\ Len(self_failing') = Len(failing_inputs)]_vars
    /\ [](pc = "done" => NoDup(self_passing) /\ NoDup(self_failing))

\* a run on a fuzzer whose earlier corpus was replaced by two passing entries
\* other than the earlier one, and one failing entry
C9_Witness ==
    /\ pc = "done" /\ Len(self_passing) = 2 /\ Len(self_failing) = 1
    /\ EarlierPassing[1] \notin Range(self_passing)
    /\ num_passing = 2 /\ max_iterations = 3

\* C10: once a run has saved its corpus with the JSON encoding, load_passing_tests
\* and load_failing_tests on that directory return the saved buckets' string forms,
\* entry by entry in the same order.
C10_JsonRoundTrip ==
    /\ [](pc = "done" /\ save_automatically /\ saving_method = "json"
             => /\ LoadPassingTests(disk) = Stringified(self_passing)
                /\ LoadFailingTests(disk) = Stringified(self_failing))
    /\ [][(pc = "done" /\ save_automatically /\ saving_method = "json")
             => /\ loaded_passing' # loaded_passing
                      => loaded_passing' = Stringified(self_passing)
                /\ loaded_failing' # loaded_failing
                      => loaded_failing' = Stringified(self_failing)]_vars

\* both buckets were saved and loaded back, with strings that JSON escapes
C10_Witness ==
    /\ pc = "done" /\ save_automatically /\ saving_method = "json"
    /\ loaded_passing = self_passing /\ loaded_failing = self_failing
    /\ Len(self_passing) = 2 /\ <<"\\", "n", "]", "\n">> \in Range(self_failing)

(***************************************************************************)
(* Properties of the construction, the persistence and the loaders.        *)
(***************************************************************************)
\* the record stored under `name`, as json.load reads it
RecordOf(d, name) == JsonLoad(d.files[name])

\* the directory holds the two records of the buckets p and f, and nothing else
HoldsRecords(d, p, f) ==
    /\ d.exists
    /\ DOMAIN d.files = {FailingJson, PassingJson}
    /\ DOMAIN RecordOf(d, PassingJson) = {KeyLength, KeyInputs}
    /\ DOMAIN RecordOf(d, FailingJson) = {KeyLength, KeyInputs}
    /\ RecordOf(d, PassingJson)[KeyInputs] = Stringified(p)
    /\ RecordOf(d, FailingJson)[KeyInputs] = Stringified(f)

\* a step of a run that called _save_inputs
SaveStep ==
    /\ pc \in {"idle", "done"} /\ pc' = "done" /\ saves' = 1
    /\ UNCHANGED <<loadVars, loaded_formula>>

\* C11: with the JSON encoding, after a run that saved, the directory holds the
\* two records of the buckets as they are, entry by entry, and nothing written
\* before (by this generator or another); the directory changes in saving steps
\* only, so it holds the buckets of the last save; and in every record on disk
\* the length field is the number of entries of the inputs array.
C11_JsonRewrites ==
    /\ [](pc = "done" /\ saves = 1 /\ save_automatically /\ saving_method = "json"
             => HoldsRecords(disk, self_passing, self_failing))
    /\ [][disk' # disk => SaveStep /\ save_automatically]_vars
    /\ [](\A name \in {FailingJson, PassingJson} \cap DOMAIN disk.files :
             RecordOf(disk, name)[KeyLength] = Len(RecordOf(disk, name)[KeyInputs]))

\* a second save of this generator: the failing bucket saved and loaded earlier
\* has been replaced by an empty one
C11_Witness ==
    /\ pc = "done" /\ saves = 1 /\ save_automatically /\ saving_method = "json"
    /\ loaded_failing = << <<"a", "\"">>, <<"c">> >>
    /\ self_failing = <<>> /\ Len(self_passing) = 1

\* the artifacts the Files encoding writes for buckets of P and F entries
Artifacts(p, f) ==
    {PassingTest(k) : k \in 0..(Len(p) - 1)} \cup {FailingTest(k) : k \in 0..(Len(f) - 1)}

\* a step of a run that saved with the Files encoding
FilesSaveStep == SaveStep /\ save_automatically /\ saving_method = "files"

C15_InvalidRejected ==
    [][pc = "new"
          => /\ saving_method = None => pc' = "idle" /\ saving_method' = "files"
             /\ saving_method \in {"json", "files"}
                   => pc' = "idle" /\ saving_method' = saving_method
             /\ saving_method \notin {None, "json", "files"}
                   => /\ pc' = "ValueError"
                      /\ UNCHANGED <<disk, formulas, diagnoses, self_passing,
                                     self_failing, saves>>]_vars

\* C16: a loader that finds no artifact returns the empty list (load_formula:
\* None) without raising: the loaders of the records when the record file is not
\* there, the path loaders when the directory is not there, load_formula when no
\* file is stored under the identifier; and a load changes neither a directory
\* nor the buckets.
C16_LoadsNeverRaise ==
    /\ [](~(disk.exists /\ PassingJson \in DOMAIN disk.files)
             => LoadPassingTests(disk) = <<>>)
    /\ [](~(disk.exists /\ FailingJson \in DOMAIN disk.files)
             => LoadFailingTests(disk) = <<>>)
    /\ [](~disk.exists => /\ LoadPassingTestPaths(disk) = {<<>>}
                          /\ LoadFailingTestPaths(disk) = {<<>>})
    /\ [](\A id \in {"formula", "other"} :
             ~(formulas.exists /\ id \in DOMAIN formulas.files)
                => LoadFormula(formulas, id) = None)
    /\ [][(loadVars' # loadVars \/ loaded_formula' # loaded_formula)
             => /\ UNCHANGED <<pc, disk, formulas, self_passing, self_failing, saves,
                               objVars, identifier>>
                /\ (~disk.exists /\ loaded_passing' # loaded_passing)
                      => loaded_passing' = <<>>
                /\ (~disk.exists /\ loaded_failing' # loaded_failing)
                      => loaded_failing' = <<>>
                /\ (~formulas.exists /\ loaded_formula' # loaded_formula)
                      => loaded_formula' = None]_vars

\* every loader was called on a generator without directories
C16_Witness ==
    /\ pc = "idle" /\ ~disk.exists /\ ~formulas.exists
    /\ loaded_passing = <<>> /\ loaded_failing = <<>> /\ loaded_formula = None

(***************************************************************************)
(* Properties of the location modifiers.                                   *)
(***************************************************************************)
\* the items of l at the positions `keep`, in the order of l
Selected(l, keep) ==
    [a \in 1..Cardinality(keep) |->
        l[CHOOSE j \in keep : Cardinality({x \in keep : x <= j}) = a]]

\* C18: DefaultModifier.locations returns a list object other than the one it was
\* given, holding the same items in the same order; the list given keeps its
\* contents, also when the caller changes the list returned; and mutation_chance
\* of each item returned is the item's weight.
C18_DefaultCopies ==
    /\ [](modifier.class = "DefaultModifier" /\ pc \in {"located", "weighed"}
             => /\ located # suggestions
                /\ lists[located] = lists[suggestions])
    /\ [][modifier.class = "DefaultModifier"
             => lists'[suggestions] = lists[suggestions]]_vars
    /\ [](modifier.class = "DefaultModifier" /\ pc = "weighed"
             => /\ Len(chance) = Len(lists[located])
                /\ \A k \in 1..Len(chance) : chance[k] = lists[located][k].weight)

\* four items copied and weighed, and the copy changed by the caller
C18_Witness ==
    /\ modifier.class = "DefaultModifier" /\ pc = "popped"
    /\ chance = <<0, 9, 5, 1>>
    /\ Len(lists[suggestions]) = 4 /\ Len(lists[located]) = 3

\* C19: for top_k >= 0, TopRankModifier.locations returns the items among the first
\* top_k of the list whose weight is greater than 0, in the order of the list, in
\* a new list of at most top_k items (an item after the first top_k is never
\* returned, whatever its weight); mutation_chance is 1.0 for every item.
C19_TopRank ==
    /\ [](modifier.class = "TopRankModifier" /\ modifier.top_k >= 0
             /\ pc \in {"located", "weighed"}
             => LET given == lists[suggestions]
                    keep == {j \in 1..Len(given) :
                                j <= modifier.top_k /\ given[j].weight > 0}
                IN  /\ lists[located] = Selected(given, keep)
                    /\ Len(lists[located]) <= modifier.top_k
                    /\ located # suggestions)
    /\ [](modifier.class = "TopRankModifier" /\ pc = "weighed"
             => /\ Len(chance) = Len(lists[located])
                /\ \A k \in 1..Len(chance) : chance[k] = One)

\* weights 0.0, 0.9, 0.5, 0.1 and top_k = 3: the items of weights 0.9 and 0.5
C19_Witness ==
    /\ modifier.class = "TopRankModifier" /\ modifier.top_k = 3 /\ pc = "weighed"
    /\ Len(lists[suggestions]) = 4
    /\ [k \in 1..4 |-> lists[suggestions][k].weight] = <<0, 9, 5, 1>>
    /\ lists[located] = << [identifier |-> 2, weight |-> 9],
                           [identifier |-> 3, weight |-> 5] >>
    /\ chance = <<One, One>>

\* the weights among the first k distinct weights met in the order of the list
FirstDistinct(l, k) ==
    {l[j].weight : j \in {j \in 1..Len(l) :
                            Cardinality({l[x].weight : x \in 1..(j - 1)}) < k}}

\* the items the claim C20 names
C20_Items(l, k, threshold) ==
    Selected(l, {j \in 1..Len(l) : /\ l[j].weight \in FirstDistinct(l, k)
                                   /\ l[j].weight > threshold})

\* C20 as stated: for every top_k >= 0 and every threshold,
\* TopEqualRankModifier.locations returns, in the order of the list, the items
\* whose weight is among the first top_k distinct weights met and is greater than
\* the threshold.
C20_TopEqualRank ==
    (modifier.class = "TopEqualRankModifier" /\ modifier.top_k >= 0
        /\ pc \in {"located", "weighed"})
        => lists[located] = C20_Items(lists[suggestions], modifier.top_k,
                                      modifier.threshold)

(***************************************************************************)
(* Properties of the SigmoidModifier.                                      *)
(***************************************************************************)
Half == Frac(BigOf(1), BigOf(2))

\* C21: SigmoidModifier(steepness=10, midpoint=0.8).locations keeps the identifier
\* and the position of every item and replaces each weight w of 0.0 .. 1.0 by w'
\* with w' = 0.5 for w = 0.8, w' > 0.5 for w > 0.8, w' < 0.5 for w < 0.8, and w'
\* not decreasing in w; mutation_chance of a returned item is its new weight w'.
C21_Sigmoid ==
    /\ modifier.class = "SigmoidModifier" /\ pc \in {"located", "weighed"}
          => LET given == lists[suggestions]
                 returned == lists[located]
             IN  /\ Len(returned) = Len(given)
                 /\ \A k \in 1..Len(given) :
                       /\ returned[k].identifier = given[k].identifier
                       /\ given[k].weight = Midpoint
                             => FracEq(returned[k].weight, Half)
                       /\ given[k].weight > Midpoint
                             => FracLess(Half, returned[k].weight)
                       /\ given[k].weight < Midpoint
                             => FracLess(returned[k].weight, Half)
                 /\ \A j, k \in 1..Len(given) :
                       given[j].weight <= given[k].weight
                           => FracLeq(returned[j].weight, returned[k].weight)
    /\ modifier.class = "SigmoidModifier" /\ pc = "weighed"
          => /\ Len(chance) = Len(lists[located])
             /\ \A k \in 1..Len(chance) : chance[k] = lists[located][k].weight

\* an item above the midpoint and one below it, located and weighed
C21_Witness ==
    /\ modifier.class = "SigmoidModifier" /\ pc = "weighed"
    /\ Len(lists[suggestions]) = 2 /\ Len(chance) = 2
    /\ lists[suggestions][1].weight = 9 /\ lists[suggestions][2].weight = 7
    /\ lists[located][1].identifier = 1 /\ lists[located][2].identifier = 2
    /\ FracLess(chance[2], Half) /\ FracLess(Half, chance[1])

(***************************************************************************)
(* Properties of the passes of the solver-guided loop.                     *)
(***************************************************************************)
\* a step from the loop to the loop: one pass
Pass == pc = "loop" /\ pc' = "loop"

\* the pass asked the solver and was given a candidate that the oracle judged
Judged(s) == s.candidate # NoInput /\ s.verdict \in OracleResult

\* the pass asked the solver and the solver signalled its exhaustion
Exhausted(s) == s.asked > 0 /\ s.candidate = NoInput

\* C22: a pass in which the solver returns a candidate (and the oracle a verdict)
\* while fail_safe >= 50 sets fail_safe to 0, adds exactly 1 to isla_restart,
\* replaces the solver by a new instance and leaves i and both buckets as they
\* were, whatever the verdict and whether the candidate is new or not.
C22_FailSafeStep ==
    [][Pass /\ Judged(step') /\ fail_safe >= FailSafeThreshold
          => /\ fail_safe' = 0
             /\ isla_restart' = isla_restart + 1
             /\ solver'.id > solver.id
             /\ UNCHANGED <<i, passing, failing>>]_vars

\* fifty candidates left UNDEFINED, then a new PASSING one discarded by the
\* fail-safe restart: no bucket holds it
C22_Witness ==
    /\ pc = "loop" /\ Judged(step) /\ step.verdict = PASSING
    /\ step.candidate = <<"c">>
    /\ fail_safe = 0 /\ isla_restart = 1 /\ solver.id = 2 /\ step.asked = 1
    /\ i = 0 /\ passing = <<>> /\ failing = <<>>

\* C23: a pass in which the solver signals exhaustion adds exactly 1 to
\* isla_restart, replaces the solver by a new instance with the same formula,
\* negation and optimization, does not call the oracle, and leaves i, fail_safe
\* and both buckets as they were; every pass asks the solver in use, whose place
\* an exhausted one has lost for good, so an exhausted instance is never asked
\* again.
C23_ExhaustionStep ==
    /\ [][Pass /\ Exhausted(step')
             => /\ isla_restart' = isla_restart + 1
                /\ solver'.id > solver.id
                /\ solver'.formula = solver.formula
                /\ solver'.formula = [of |-> failure_formula,
                                      negated |-> negate_formula]
                /\ solver'.optimized = solver.optimized
                /\ solver'.optimized = optimized_queries
                /\ step'.verdict = None /\ oracle_called' = oracle_called
                /\ UNCHANGED <<i, fail_safe, passing, failing>>]_vars
    /\ [][Pass => step'.asked = solver.id /\ solver'.id >= solver.id]_vars
    /\ [](pc = "loop" /\ Exhausted(step) => solver.id > step.asked)

\* the first solver exhausted at once: the second has its settings, and the
\* oracle has not been called
C23_Witness ==
    /\ pc = "loop" /\ Exhausted(step) /\ step.asked = 1
    /\ solver = NewSolver(2, "parsed", TRUE, TRUE)
    /\ isla_restart = 1 /\ ~oracle_called /\ i = 0 /\ fail_safe = 0

\* the candidate of the pass is in a bucket already, and duplicates are rejected
Duplicate(s) ==
    only_unique_inputs /\ s.candidate \in Range(passing) \cup Range(failing)

\* C24: in a pass, fail_safe is set to 0 when a candidate is judged while it is
\* 50 or more; otherwise it grows by 1 when the candidate is rejected as a
\* duplicate (only_unique_inputs set) or its verdict is UNDEFINED; an accepted
\* candidate and an exhausted solver leave it as it is, and it changes in no
\* other way; it never exceeds 50.
C24_FailSafeCount ==
    /\ [][Pass =>
            IF Judged(step')
            THEN IF fail_safe >= FailSafeThreshold THEN fail_safe' = 0
                 ELSE IF Duplicate(step') \/ step'.verdict = UNDEFINED
                 THEN fail_safe' = fail_safe + 1 /\ i' = i
                 ELSE fail_safe' = fail_safe /\ i' = i + 1
            ELSE fail_safe' = fail_safe]_vars
    /\ [](fail_safe <= FailSafeThreshold)

\* forty-nine rejections, then an acceptance that leaves their count standing
C24_Witness ==
    /\ pc = "loop" /\ Judged(step) /\ step.verdict = FAILING
    /\ failing = <<step.candidate>> /\ passing = <<>> /\ i = 1
    /\ fail_safe = FailSafeThreshold - 1 /\ isla_restart = 0

\* C25: during the loop i is the number of entries of the passing bucket plus
\* that of the failing bucket; a pass adds 1 to i exactly when it appends its
\* candidate to the passing bucket on PASSING or to the failing bucket on
\* FAILING; and the call extends the corpus by i entries, with only_unique_inputs
\* or without.
C25_AcceptedCount ==
    /\ [](pc = "loop" => i = Len(passing) + Len(failing))
    /\ [][Pass =>
            /\ i' = i + 1 <=>
                  \/ /\ step'.verdict = PASSING
                     /\ passing' = Append(passing, step'.candidate)
                     /\ failing' = failing
                  \/ /\ step'.verdict = FAILING
                     /\ failing' = Append(failing, step'.candidate)
                     /\ passing' = passing
            /\ i' # i + 1 => UNCHANGED <<i, passing, failing>>]_vars
    /\ [][pc = "loop" /\ pc' = "done"
            => Len(self_passing') + Len(self_failing')
                   = Len(self_passing) + Len(self_failing) + i]_vars

\* a call with only_unique_inputs that accepted two candidates and added two
\* entries to the corpus
C25_Witness ==
    /\ pc = "done" /\ only_unique_inputs /\ i = 2 /\ fail_safe > 0
    /\ Len(self_passing) = 2 /\ Len(self_failing) = 2

\* the candidate of the pass is in the corpus the earlier calls left
InCorpus(s) == s.candidate \in Range(self_passing) \cup Range(self_failing)

\* C26: with only_unique_inputs a candidate is compared with the buckets of the
\* call alone: one that the corpus of an earlier call holds and the buckets do
\* not is accepted as any new one is, so the corpus can come to hold a string
\* twice.
C26_UniquePerCall ==
    [][/\ Pass /\ Judged(step') /\ only_unique_inputs
       /\ fail_safe < FailSafeThreshold
       /\ InCorpus(step') /\ ~Duplicate(step')
       => /\ step'.verdict = PASSING
             => passing' = Append(passing, step'.candidate)
          /\ step'.verdict = FAILING
             => failing' = Append(failing, step'.candidate)
          /\ step'.verdict # UNDEFINED => i' = i + 1 /\ fail_safe' = fail_safe]_vars

\* the corpus held "c" from an earlier call; a call with only_unique_inputs has
\* accepted "c" again and the corpus holds it twice
C26_Witness ==
    /\ pc = "done" /\ only_unique_inputs
    /\ self_passing = << <<"c">>, <<"c">> >>
    /\ passing = << <<"c">> >> /\ i = 1

(***************************************************************************)
(* Properties of a call that an exception of the oracle ends.              *)
(***************************************************************************)
\* C27: a call of solve_formula or of the fuzzer's run that an exception of the
\* oracle ends leaves self.passing, self.failing and the directory of the test
\* cases as they were before the call, and saves nothing: what the call had
\* accepted is neither in the corpus nor on disk.  (Before the call ends in its
\* own way, no step of it changes them.)
C27_AbortKeepsCorpus ==
    /\ [][pc' # "done" => UNCHANGED <<self_passing, self_failing, disk>>]_vars
    /\ [](pc = "raised" => saves = 0)

\* a run of the fuzzer that had accepted a passing and a failing input when the
\* oracle raised: the corpus is the earlier one and the directory holds it
C27_Witness ==
    /\ pc = "raised" /\ identifier = None
    /\ Len(passing_inputs) = 1 /\ Len(failing_inputs) = 1
    /\ self_passing = EarlierPassing /\ self_failing = <<>>
    /\ passing_inputs[1] \notin Range(self_passing)
    /\ save_automatically /\ saving_method = "json"
    /\ LoadPassingTests(disk) = Stringified(EarlierPassing)
    /\ LoadFailingTests(disk) = <<>>

(***************************************************************************)
(* Properties of the explicit save.                                        *)
(***************************************************************************)
\* C28: save_test_cases writes passing_test_<i> and failing_test_<i> for the
\* entries of the buckets, whatever save_automatically is, and removes nothing:
\* every file the directory held is still there, with its content unless a file
\* of the same name was written.  (So the files of higher index of a larger
\* corpus saved earlier stay, and the path loaders return more paths than the
\* buckets have entries: C28_Witness.)
C28_SaveTestCases ==
    [][pc' = "saved"
          => LET written == Artifacts(self_passing, self_failing)
             IN  /\ disk'.exists
                 /\ DOMAIN disk'.files = DOMAIN disk.files \cup written
                 /\ \A k \in 1..Len(self_passing) :
                       disk'.files[PassingTest(k - 1)] = StrOfEntry(self_passing[k])
                 /\ \A k \in 1..Len(self_failing) :
                       disk'.files[FailingTest(k - 1)] = StrOfEntry(self_failing[k])
                 /\ \A name \in DOMAIN disk.files \ written :
                       disk'.files[name] = disk.files[name]]_vars

\* a generator that does not save automatically, whose one passing entry was
\* saved over the two passing tests of an earlier generator: the second is still
\* there, and the loader of the passing paths returns two paths
C28_Witness ==
    /\ pc = "saved" /\ ~save_automatically
    /\ Len(self_passing) = 1 /\ self_failing = <<>>
    /\ disk.exists
    /\ PassingTest(1) \in DOMAIN disk.files
    /\ disk.files[PassingTest(0)] = StrOfEntry(self_passing[1])
    /\ loaded_passing # NotLoaded /\ Len(loaded_passing) = 2
    /\ loaded_passing \in LoadPassingTestPaths(disk)
====
